---- MODULE Spec2Model ----
(***************************************************************************)
(* Model of src/advanced_refinement.py: the iterative filter-refinement    *)
(* loop of main() and the pure function apply_filter_change.               *)
(*                                                                         *)
(* Two specifications share the module:                                    *)
(*   Spec       the run of main(): preview, advisor, prompts, fallback,    *)
(*              the final enrichment prompt;                               *)
(*   ApplySpec  apply_filter_change applied to bounded filter sets/edits.  *)
(***************************************************************************)
EXTENDS Integers, Sequences, FiniteSets, TLC

VARIABLES
    pc,               \* position of main(): see the actions below
    iteration,        \* main: iteration
    current_filters,  \* main: current_filters (a mapping category -> value)
    previous_counts,  \* main: previous_counts
    count,            \* main: count (NoCount before the first preview)
    suggestions,      \* main: suggestions of the current iteration
    err,              \* what raised into the except clause of this iteration
    asked,            \* prompts shown in the current iteration
    evals,            \* number of preview_search calls made so far
    reason,           \* how the loop was left
    enrichSent,       \* whether the enrich request was posted
    advisorTrend,     \* what the advisor has done in every iteration so far
    proceed,          \* main: proceed (the answer to "Proceed with enrichment?")
    evaluated,        \* the filters the last successful preview was made for
    sScript,          \* ScriptsSpec: the entry point that runs
    sPc,              \* ScriptsSpec: its position
    sCount,           \* ScriptsSpec: lead_count / result.count
    sPreviewed,       \* ScriptsSpec: whether its preview request succeeded
    sIter,            \* ScriptsSpec: run_workflow_example's iteration
    sReply,           \* ScriptsSpec: what was typed at its enrichment prompt
    sEnrichSent,      \* ScriptsSpec: whether it posted the enrich request
    aF,               \* ApplySpec: the argument filters
    aChange,          \* ApplySpec: the argument change
    aOnce,            \* ApplySpec: result of one call
    aTwice,           \* ApplySpec: result of the same call on that result
    aPhase            \* ApplySpec: "input", "once", "twice"

mainVars == <<pc, iteration, current_filters, previous_counts, count,
              suggestions, err, asked, evals, reason, enrichSent,
              advisorTrend, proceed, evaluated>>
applyVars == <<aF, aChange, aOnce, aTwice, aPhase>>
scriptVars == <<sScript, sPc, sCount, sPreviewed, sIter, sReply, sEnrichSent>>
vars == <<pc, iteration, current_filters, previous_counts, count,
          suggestions, err, asked, evals, reason, enrichSent,
          advisorTrend, proceed, evaluated,
          aF, aChange, aOnce, aTwice, aPhase,
          sScript, sPc, sCount, sPreviewed, sIter, sReply, sEnrichSent>>

----------------------------------------------------------------------------
(* Program constants *)

MAX_ITERATIONS == 5
UpperBound == 2000
LowerBound == 500

(* Bounds of the model *)

\* longest list of suggested_changes the advisor returns
MaxBatch == 2
\* opaque leaf values (strings, numbers, nested objects) are tokens 1..MaxTok
MaxTok == 2
\* longest list value of the filter sets and edits ApplySpec draws
MaxLen == 1

----------------------------------------------------------------------------
(* Filter values.  A category's value is a dict (one level: key -> leaf),  *)
(* a list of leaves, or a leaf (number, string, None).  Leaves are opaque   *)
(* tokens; token 0 in a dict means the key is not present.                  *)

DictKeys == {"include", "exclude", "min", "max"}
NoDict == [k \in DictKeys |-> 0]

DictV(d) == [kind |-> "dict", d |-> d, l |-> <<>>, v |-> 0]
ListV(l) == [kind |-> "list", d |-> NoDict, l |-> l, v |-> 0]
LeafV(v) == [kind |-> "leaf", d |-> NoDict, l |-> <<>>, v |-> v]
\* Python None (the JSON null of a remove edit)
NoneV == LeafV(0)
EmptyDict == DictV(NoDict)

\* dict.update(other): every key of other overwrites
DictUpdate(d, e) == [k \in DictKeys |-> IF e[k] # 0 THEN e[k] ELSE d[k]]
\* list.extend(other)
ListExtend(l, e) == l \o e

\* new_filters[k] = v
Put(F, k, v) == [x \in (DOMAIN F) \cup {k} |-> IF x = k THEN v ELSE F[x]]
\* del new_filters[k]
Del(F, k) == [x \in (DOMAIN F) \ {k} |-> F[x]]

EmptyFilters == [x \in {} |-> NoneV]

----------------------------------------------------------------------------
(* apply_filter_change(filters, change).  The result records whether the   *)
(* call raised, the returned mapping (new), and the argument mapping as it  *)
(* is after the call (arg): filters.copy() is shallow, so a merge into an   *)
(* existing category also changes the object the argument holds.            *)

EditKeys == {"filter", "action", "value", "rationale"}

Edit(f, a, v) == [filter |-> f, action |-> a, value |-> v, has |-> EditKeys]
EditWithout(f, a, v, k) ==
    [filter |-> f, action |-> a, value |-> v, has |-> EditKeys \ {k}]

Raised(F) == [raised |-> TRUE, new |-> F, arg |-> F]
Returned(N, A) == [raised |-> FALSE, new |-> N, arg |-> A]

\* a set that keeps an existing category (dict.setdefault)
ApplySetDefault(F, k, v) ==
    Returned(IF k \in DOMAIN F THEN F ELSE Put(F, k, v), F)

\* lines 133-134
ApplySet(F, k, v) == Returned(Put(F, k, v), F)

\* lines 135-143
ApplyAdd(F, k, v) ==
    LET present == k \in DOMAIN F
        cur == IF present THEN F[k] ELSE EmptyDict
    IN  CASE v.kind = "dict" ->
                IF cur.kind = "dict"
                THEN LET merged == DictV(DictUpdate(cur.d, v.d))
                     IN  Returned(Put(F, k, merged),
                                  IF present THEN Put(F, k, merged) ELSE F)
                ELSE Raised(F)
          [] v.kind = "list" ->
                IF cur.kind = "list"
                THEN LET ext == ListV(ListExtend(cur.l, v.l))
                     IN  Returned(Put(F, k, ext), Put(F, k, ext))
                ELSE Raised(F)
          [] OTHER -> Returned(Put(F, k, cur), F)

\* a remove without the membership test of line 145: del raises KeyError
ApplyRemoveUnguarded(F, k) ==
    IF k \in DOMAIN F THEN Returned(Del(F, k), F) ELSE Raised(F)

\* lines 144-146
ApplyRemove(F, k) == Returned(Del(F, k), F)

\* lines 125-148
apply_filter_change(F, change) ==
    IF ~({"filter", "action", "value"} \subseteq change.has)
    THEN Raised(F)
    ELSE CASE change.action = "set" -> ApplySet(F, change.filter, change.value)
           [] change.action = "add" -> ApplyAdd(F, change.filter, change.value)
           [] change.action = "remove" -> ApplyRemove(F, change.filter)
           [] OTHER -> Returned(F, F)

\* lines 251-252: the for loop over suggested_changes; an exception leaves
\* current_filters as the edits applied before it made it.
RECURSIVE ApplyAll(_, _)
ApplyAll(F, batch) ==
    IF batch = <<>>
    THEN [raised |-> FALSE, filters |-> F]
    ELSE LET r == apply_filter_change(F, Head(batch))
         IN  IF r.raised
             THEN [raised |-> TRUE, filters |-> F]
             ELSE ApplyAll(r.new, Tail(batch))

----------------------------------------------------------------------------
(* The run of main().                                                      *)

\* lines 171-181: the starting filters
InitialFilters ==
    [x \in {"locations", "job_titles", "management_levels"} |->
        IF x = "management_levels"
        THEN ListV(<<1>>)
        ELSE DictV([k \in DictKeys |->
                      CASE k = "include" -> 1 [] k = "exclude" -> 2 [] OTHER -> 0])]

NoCount == -1
\* the parsed advisor answer: its recommendation, its suggested_changes and
\* their number (line 241)
Suggestions(r, batch) == [recommendation |-> r, changes |-> batch, n |-> Len(batch)]
NoSuggestions == Suggestions("none", <<>>)

\* counts the preview endpoint reports: below the band, its two ends, above
Counts == {50, LowerBound, UpperBound, UpperBound + 1}

\* what the user types at an input() prompt
Answers == {"y", "Y", "yes", "n"}
\* str.lower()
Lower(a) == IF a = "Y" THEN "y" ELSE a

\* the edits the advisor draws its suggested_changes from
SizeRange == DictV([k \in DictKeys |->
                 CASE k = "min" -> 1 [] k = "max" -> 2 [] OTHER -> 0])
EditPool ==
    { Edit("company_size", "set", SizeRange),
      Edit("company_size", "remove", NoneV),
      Edit("company_size", "add", ListV(<<1>>)),
      Edit("job_titles", "replace", LeafV(1)),
      EditWithout("company_size", "set", SizeRange, "rationale") }

RECURSIVE SeqsUpTo(_, _)
SeqsUpTo(S, n) ==
    IF n = 0 THEN {<<>>}
    ELSE LET shorter == SeqsUpTo(S, n - 1)
         IN  shorter \cup {Append(q, e) : q \in {r \in shorter : Len(r) = n - 1}, e \in S}

Batches == SeqsUpTo(EditPool, MaxBatch)

\* what get_ai_refinement_suggestions does: raise (call error, no JSON in
\* the text) or return the parsed object; lines 217-220 then raise KeyError
\* when status, recommendation, reasoning or confidence is missing.
AdvisorFailures == {"call_error", "no_json", "missing_keys"}
Recommendations == {"proceed", "refine", "pivot"}

\* lines 242-246: printing a change reads filter, action and rationale
Printable(batch) ==
    \A i \in 1..Len(batch) : {"filter", "action", "rationale"} \subseteq batch[i].has

\* a history that keeps the latest count only
RecordLatest(h, c) == <<c>>

\* line 202: previous_counts.append(count)
Record(h, c) == Append(h, c)

\* lines 199-202 and 41: the preview request succeeds and reports c
PreviewOk(c) ==
    /\ pc = "preview"
    /\ count' = c
    /\ previous_counts' = Record(previous_counts, c)
    /\ evaluated' = current_filters
    /\ evals' = evals + 1
    /\ pc' = "advise"
    /\ UNCHANGED <<iteration, current_filters, suggestions, err, asked,
                   reason, enrichSent>>
    /\ UNCHANGED <<advisorTrend, proceed>>
    /\ UNCHANGED <<applyVars, scriptVars>>

\* line 41: raise_for_status raises; line 200 is outside the try, so the
\* exception leaves main()
PreviewFails ==
    /\ pc = "preview"
    /\ evals' = evals + 1
    /\ pc' = "crashed"
    /\ reason' = "preview_error"
    /\ UNCHANGED <<iteration, current_filters, previous_counts, count,
                   suggestions, err, asked, enrichSent>>
    /\ UNCHANGED <<advisorTrend, proceed, evaluated>>
    /\ UNCHANGED <<applyVars, scriptVars>>

\* a while test that lets one more iteration through
LoopEndsLate(i) == i > MAX_ITERATIONS + 1

\* a while test that stops one iteration short
LoopEndsEarly(i) == i >= MAX_ITERATIONS

\* line 190: the while test; line 274-277 fall through to it
LoopEnds(i) == i > MAX_ITERATIONS

WhileTest ==
    /\ pc = "while"
    /\ IF LoopEnds(iteration)
       THEN /\ pc' = "final"
            /\ reason' = "exhausted"
       ELSE /\ pc' = "preview"
            /\ reason' = reason
    /\ asked' = {}
    /\ err' = "none"
    /\ UNCHANGED <<iteration, current_filters, previous_counts, count,
                   suggestions, evals, enrichSent>>
    /\ UNCHANGED <<advisorTrend, proceed, evaluated>>
    /\ UNCHANGED <<applyVars, scriptVars>>

\* an empty list of changes handled like proceed
AfterVerdictStopsOnEmpty(s) ==
    IF s.changes = <<>> THEN "final"
    ELSE IF Printable(s.changes) THEN "apply_prompt"
    ELSE "except"

\* lines 240-249: with changes to show, print them and ask; without, the
\* iteration is over
AfterVerdict(s) ==
    IF s.changes = <<>> THEN "increment"
    ELSE IF Printable(s.changes) THEN "apply_prompt"
    ELSE "except"

\* the verdict compared with the upper-case form line 218 prints
IsProceedUpper(r) == r = "PROCEED"

\* line 226
IsProceed(r) == r = "proceed"
\* the verdict compared with the upper-case form
IsPivotUpper(r) == r = "PIVOT"

\* line 231
IsPivot(r) == r = "pivot"

\* advisorTrend records whether the advisor has so far failed in every
\* iteration ("all_failed"), answered refine with no changes in every
\* iteration ("all_empty_refine"), or neither ("mixed")
Trend(old, now) == IF old \in {"start", now} THEN now ELSE "mixed"

\* suggestions is read again only at the two prompts that precede the
\* application of its changes; everywhere else its value is dead (it is
\* assigned anew before the next read) and its changes are dropped.
Keep(at, s) ==
    IF at \in {"pivot_prompt", "apply_prompt"} THEN s
    ELSE [recommendation |-> s.recommendation, changes |-> <<>>, n |-> s.n]

\* the advisor call outside the try: its exception leaves main()
AdvisorFailsUncaught(f) ==
    /\ pc = "advise"
    /\ f \in AdvisorFailures
    /\ err' = f
    /\ pc' = "crashed"
    /\ advisorTrend' = Trend(advisorTrend, "all_failed")
    /\ UNCHANGED <<iteration, current_filters, previous_counts, count,
                   suggestions, asked, evals, reason, enrichSent>>
    /\ UNCHANGED <<proceed, evaluated>>
    /\ UNCHANGED <<applyVars, scriptVars>>

\* lines 208-215, 260: the advisor call or the reading of its answer raises
AdvisorFails(f) ==
    /\ pc = "advise"
    /\ f \in AdvisorFailures
    /\ err' = f
    /\ pc' = "except"
    /\ UNCHANGED <<iteration, current_filters, previous_counts, count,
                   suggestions, asked, evals, reason, enrichSent>>
    /\ advisorTrend' = Trend(advisorTrend, "all_failed")
    /\ UNCHANGED <<proceed, evaluated>>
    /\ UNCHANGED <<applyVars, scriptVars>>

\* lines 209-238: the advisor answers
AdvisorAnswers(r, batch) ==
    /\ pc = "advise"
    /\ LET s == Suggestions(r, batch)
       IN  CASE IsProceed(r) ->
                  /\ pc' = "final"
                  /\ reason' = "proceed"
                  /\ err' = err
             [] IsPivot(r) ->
                  /\ pc' = "pivot_prompt"
                  /\ reason' = reason
                  /\ err' = err
             [] OTHER ->
                  /\ pc' = AfterVerdict(s)
                  /\ reason' = reason
                  /\ err' = IF pc' = "except" THEN "print" ELSE err
    /\ suggestions' = Keep(pc', Suggestions(r, batch))
    /\ UNCHANGED <<iteration, current_filters, previous_counts, count,
                   asked, evals, enrichSent>>
    /\ advisorTrend' =
          IF ~IsProceed(r) /\ ~IsPivot(r) /\ batch = <<>>
          THEN Trend(advisorTrend, "all_empty_refine")
          ELSE "mixed"
    /\ UNCHANGED <<proceed, evaluated>>
    /\ UNCHANGED <<applyVars, scriptVars>>

\* lines 234-237: "Continue anyway?"
PivotAnswer(a) ==
    /\ pc = "pivot_prompt"
    /\ asked' = asked \cup {"pivot"}
    /\ IF Lower(a) # "y"
       THEN /\ pc' = "cancelled"
            /\ reason' = "pivot_declined"
            /\ err' = err
       ELSE /\ pc' = AfterVerdict(suggestions)
            /\ reason' = reason
            /\ err' = IF pc' = "except" THEN "print" ELSE err
    /\ suggestions' = Keep(pc', suggestions)
    /\ UNCHANGED <<iteration, current_filters, previous_counts, count,
                   evals, enrichSent>>
    /\ UNCHANGED <<advisorTrend, proceed, evaluated>>
    /\ UNCHANGED <<applyVars, scriptVars>>

\* any answer but n taken for consent
AcceptsUnlessNo(a) == Lower(a) # "n"

\* line 250: apply.lower() == 'y'
Accepts(a) == Lower(a) = "y"

\* lines 249-255: "Apply these changes?"
ApplyAnswer(a) ==
    /\ pc = "apply_prompt"
    /\ asked' = asked \cup {"apply"}
    /\ IF Accepts(a)
       THEN LET r == ApplyAll(current_filters, suggestions.changes)
            IN  /\ current_filters' = r.filters
                /\ pc' = IF r.raised THEN "except" ELSE "increment"
                /\ err' = IF r.raised THEN "apply" ELSE err
       ELSE /\ current_filters' = current_filters
            /\ pc' = "manual_prompt"
            /\ err' = err
    /\ suggestions' = Keep(pc', suggestions)
    /\ UNCHANGED <<iteration, previous_counts, count, evals, reason, enrichSent>>
    /\ UNCHANGED <<advisorTrend, proceed, evaluated>>
    /\ UNCHANGED <<applyVars, scriptVars>>

\* lines 256-258: "Enter your own filter adjustments?"
ManualAnswer(a) ==
    /\ pc = "manual_prompt"
    /\ asked' = asked \cup {"manual"}
    /\ IF Lower(a) # "y"
       THEN /\ pc' = "final"
            /\ reason' = "declined"
       ELSE /\ pc' = "increment"
            /\ reason' = reason
    /\ UNCHANGED <<iteration, current_filters, previous_counts, count,
                   suggestions, err, evals, enrichSent>>
    /\ UNCHANGED <<advisorTrend, proceed, evaluated>>
    /\ UNCHANGED <<applyVars, scriptVars>>

\* the band taken without its upper end
ManualRuleExclusive(c) ==
    IF c >= UpperBound THEN "narrow"
    ELSE IF c < LowerBound THEN "broaden"
    ELSE "proceed"

\* a rule that only looks at the upper bound
ManualRuleNoBroaden(c) ==
    IF c > UpperBound THEN "narrow" ELSE "proceed"

\* lines 264-272: the manual rule of the except clause
ManualRule(c) ==
    IF c > UpperBound THEN "narrow"
    ELSE IF c < LowerBound THEN "broaden"
    ELSE "proceed"

\* lines 260-272
Fallback ==
    /\ pc = "except"
    /\ IF ManualRule(count) = "proceed"
       THEN /\ pc' = "final"
            /\ reason' = "in_band"
       ELSE /\ pc' = "increment"
            /\ reason' = reason
    /\ UNCHANGED <<iteration, current_filters, previous_counts, count,
                   suggestions, err, asked, evals, enrichSent>>
    /\ UNCHANGED <<advisorTrend, proceed, evaluated>>
    /\ UNCHANGED <<applyVars, scriptVars>>

\* line 274
NextIteration(i) == i + 1

\* lines 274-277.  suggestions is assigned again before it is read in the
\* next iteration, so its old value is dropped here.
Increment ==
    /\ pc = "increment"
    /\ iteration' = NextIteration(iteration)
    /\ suggestions' = NoSuggestions
    /\ pc' = "while"
    /\ UNCHANGED <<current_filters, previous_counts, count, err, asked,
                   evals, reason, enrichSent>>
    /\ UNCHANGED <<advisorTrend, proceed, evaluated>>
    /\ UNCHANGED <<applyVars, scriptVars>>

\* any answer but "no" taken for consent
AffirmativeUnlessNo(p) == p # "no"

\* line 303: proceed in ['yes', 'y']
Affirmative(p) == p \in {"yes", "y"}

\* lines 301-303 and 333-334: "Proceed with enrichment?"
EnrichAnswer(a) ==
    /\ pc = "final"
    /\ proceed' = Lower(a)
    /\ IF Affirmative(proceed')
       THEN /\ pc' = "enrich"
            /\ enrichSent' = TRUE
       ELSE /\ pc' = "done"
            /\ enrichSent' = enrichSent
    /\ UNCHANGED <<iteration, current_filters, previous_counts, count,
                   suggestions, err, asked, evals, reason>>
    /\ UNCHANGED <<advisorTrend, evaluated>>
    /\ UNCHANGED <<applyVars, scriptVars>>

\* lines 325-332: either status is printed and main returns
EnrichResponse ==
    /\ pc = "enrich"
    /\ pc' = "done"
    /\ UNCHANGED <<iteration, current_filters, previous_counts, count,
                   suggestions, err, asked, evals, reason, enrichSent>>
    /\ UNCHANGED <<advisorTrend, proceed, evaluated>>
    /\ UNCHANGED <<applyVars, scriptVars>>

Terminal == {"done", "cancelled", "crashed"}

ApplyIdle ==
    /\ aF = EmptyFilters
    /\ aChange = Edit("company_size", "remove", NoneV)
    /\ aOnce = Raised(EmptyFilters)
    /\ aTwice = Raised(EmptyFilters)
    /\ aPhase = "idle"

MainInit ==
    /\ pc = "while"
    /\ iteration = 1
    /\ current_filters = InitialFilters
    /\ previous_counts = <<>>
    /\ count = NoCount
    /\ suggestions = NoSuggestions
    /\ err = "none"
    /\ asked = {}
    /\ evals = 0
    /\ reason = "running"
    /\ enrichSent = FALSE
    /\ advisorTrend = "start"
    /\ proceed = "none"
    /\ evaluated = EmptyFilters

\* the other entry points are not run
ScriptIdle ==
    /\ sScript = "none"
    /\ sPc = "not_run"
    /\ sCount = NoCount
    /\ sPreviewed = FALSE
    /\ sIter = 0
    /\ sReply = "none"
    /\ sEnrichSent = FALSE

Init == MainInit /\ ApplyIdle /\ ScriptIdle

Next ==
    \/ WhileTest
    \/ \E c \in Counts : PreviewOk(c)
    \/ PreviewFails
    \/ \E f \in AdvisorFailures : AdvisorFails(f)
    \/ \E r \in Recommendations, b \in Batches : AdvisorAnswers(r, b)
    \/ \E a \in Answers : PivotAnswer(a)
    \/ \E a \in Answers : ApplyAnswer(a)
    \/ \E a \in Answers : ManualAnswer(a)
    \/ Fallback
    \/ Increment
    \/ \E a \in Answers : EnrichAnswer(a)
    \/ EnrichResponse

Spec == Init /\ [][Next]_vars

----------------------------------------------------------------------------
(* The entry points of the repository side by side: main() of
   advanced_refinement.py as above, the script simple_example.py, and
   run_workflow_example and quick_example of instantly_workflow.py.  Of the
   three scripts the control flow up to the enrich request is modelled; the
   filters they send are literals that the control flow does not read.      *)

Scripts == {"simple_example", "run_workflow_example", "quick_example"}

\* instantly_workflow.py line 368
max_iterations == 3
\* instantly_workflow.py line 486
QuickLow == 100
QuickHigh == 5000
\* instantly_workflow.py line 243 and simple_example.py line 144
ManualCap == 10000

\* counts a preview may report to a script
ScriptCounts == {0, QuickLow - 1, QuickLow, QuickHigh, QuickHigh + 1, ManualCap}

\* what the user types at a prompt of a script
ScriptAnswers == {"y", "Y", "yes", " y ", "n", ""}
\* str.strip()
Strip(a) == IF a = " y " THEN "y" ELSE a

\* a range without its upper end
InTargetRangeOpen(c) == QuickLow <= c

\* instantly_workflow.py line 486
InTargetRange(c) == QuickLow <= c /\ c <= QuickHigh

\* instantly_workflow.py line 243
ManualProceed(c) == 0 < c /\ c < ManualCap

\* main() is not run
MainIdle ==
    /\ pc = "not_run"
    /\ iteration = 1
    /\ current_filters = InitialFilters
    /\ previous_counts = <<>>
    /\ count = NoCount
    /\ suggestions = NoSuggestions
    /\ err = "none"
    /\ asked = {}
    /\ evals = 0
    /\ reason = "running"
    /\ enrichSent = FALSE
    /\ advisorTrend = "start"
    /\ proceed = "none"
    /\ evaluated = EmptyFilters

ScriptStart(s) ==
    /\ sScript = s
    /\ sPc = "preview"
    /\ sCount = NoCount
    /\ sPreviewed = FALSE
    /\ sIter = 0
    /\ sReply = "none"
    /\ sEnrichSent = FALSE

\* simple_example.py lines 81-93, instantly_workflow.py lines 46-72 (called
\* at 360 and 482): the preview request.  simple_example exits on a status
\* other than 200; preview_leads raises from raise_for_status.
ScriptPreview(ok, c) ==
    /\ sScript \in Scripts
    /\ sPc = "preview"
    /\ IF ok
       THEN /\ sCount' = c
            /\ sPreviewed' = TRUE
            /\ sPc' = CASE sScript = "simple_example" -> "assess"
                        [] sScript = "run_workflow_example" -> "analyze"
                        [] OTHER -> "decide"
            /\ sIter' = IF sScript = "run_workflow_example" THEN 1 ELSE sIter
       ELSE /\ sPc' = IF sScript = "simple_example" THEN "exit1" ELSE "crashed"
            /\ UNCHANGED <<sCount, sPreviewed, sIter>>
    /\ UNCHANGED <<sScript, sReply, sEnrichSent>>
    /\ UNCHANGED <<mainVars, applyVars>>

\* simple_example.py lines 106-147: with an advisor key the analysis is
\* printed, or its failure is (try/except), and the script goes on; without
\* one a count of 0 exits
SimpleAssess(hasKey) ==
    /\ sScript = "simple_example"
    /\ sPc = "assess"
    /\ sPc' = IF ~hasKey /\ sCount = 0 THEN "exit1" ELSE "prompt"
    /\ UNCHANGED <<sScript, sCount, sPreviewed, sIter, sReply, sEnrichSent>>
    /\ UNCHANGED <<mainVars, applyVars>>

\* simple_example.py lines 168-176 and 196-217
SimpleAnswer(a) ==
    /\ sScript = "simple_example"
    /\ sPc = "prompt"
    /\ sReply' = Lower(Strip(a))
    /\ IF sReply' \notin {"yes", "y"}
       THEN /\ sPc' = "exit0"
            /\ sEnrichSent' = sEnrichSent
       ELSE /\ sPc' = "enrich"
            /\ sEnrichSent' = TRUE
    /\ UNCHANGED <<sScript, sCount, sPreviewed, sIter>>
    /\ UNCHANGED <<mainVars, applyVars>>

\* instantly_workflow.py lines 374-384: analyze_search_results answers with
\* the advisor's object (any shape: lines 376-377 raise KeyError when
\* assessment or reasoning is missing) or, without a client or on an
\* exception, with _manual_refinement_prompt (lines 230-245)
WorkflowAnalyze(advised, wellFormed, go) ==
    /\ sScript = "run_workflow_example"
    /\ sPc = "analyze"
    /\ sPc' = IF advised /\ ~wellFormed THEN "crashed"
              ELSE IF (advised /\ go) \/ (~advised /\ ManualProceed(sCount))
                   THEN "prompt"
                   ELSE "continue_prompt"
    /\ UNCHANGED <<sScript, sCount, sPreviewed, sIter, sReply, sEnrichSent>>
    /\ UNCHANGED <<mainVars, applyVars>>

\* instantly_workflow.py lines 368-369 and 391-395: "Apply suggested changes and
\* continue?"; the filters are not changed and no preview is made again
WorkflowContinue(a) ==
    /\ sScript = "run_workflow_example"
    /\ sPc = "continue_prompt"
    /\ IF Lower(a) # "y" \/ sIter = max_iterations
       THEN /\ sPc' = "prompt"
            /\ sIter' = sIter
       ELSE /\ sPc' = "analyze"
            /\ sIter' = sIter + 1
    /\ UNCHANGED <<sScript, sCount, sPreviewed, sReply, sEnrichSent>>
    /\ UNCHANGED <<mainVars, applyVars>>

\* instantly_workflow.py lines 410-442 and 457
WorkflowAnswer(a) ==
    /\ sScript = "run_workflow_example"
    /\ sPc = "prompt"
    /\ sReply' = Lower(a)
    /\ IF sReply' = "y"
       THEN /\ sPc' = "enrich"
            /\ sEnrichSent' = TRUE
       ELSE /\ sPc' = "done"
            /\ sEnrichSent' = sEnrichSent
    /\ UNCHANGED <<sScript, sCount, sPreviewed, sIter>>
    /\ UNCHANGED <<mainVars, applyVars>>

\* instantly_workflow.py lines 485-494: "Enrich if count looks good"
QuickDecide ==
    /\ sScript = "quick_example"
    /\ sPc = "decide"
    /\ IF InTargetRange(sCount)
       THEN /\ sPc' = "enrich"
            /\ sEnrichSent' = TRUE
       ELSE /\ sPc' = "done"
            /\ sEnrichSent' = sEnrichSent
    /\ UNCHANGED <<sScript, sCount, sPreviewed, sIter, sReply>>
    /\ UNCHANGED <<mainVars, applyVars>>

\* the answer to the enrich request: simple_example.py lines 219-264 (exit
\* on a status other than 200), instantly_workflow.py lines 74-115
\* (raise_for_status) with 445-455 and 492
ScriptEnrichResponse(ok) ==
    /\ sScript \in Scripts
    /\ sPc = "enrich"
    /\ sPc' = IF ok THEN "done"
              ELSE IF sScript = "simple_example" THEN "exit1" ELSE "crashed"
    /\ UNCHANGED <<sScript, sCount, sPreviewed, sIter, sReply, sEnrichSent>>
    /\ UNCHANGED <<mainVars, applyVars>>

ScriptsInit ==
    \/ MainInit /\ ApplyIdle /\ ScriptIdle
    \/ MainIdle /\ ApplyIdle /\ \E s \in Scripts : ScriptStart(s)

ScriptsNext ==
    \/ WhileTest
    \/ \E c \in Counts : PreviewOk(c)
    \/ PreviewFails
    \/ \E f \in AdvisorFailures : AdvisorFails(f)
    \/ \E r \in Recommendations, b \in Batches : AdvisorAnswers(r, b)
    \/ \E a \in Answers : PivotAnswer(a)
    \/ \E a \in Answers : ApplyAnswer(a)
    \/ \E a \in Answers : ManualAnswer(a)
    \/ Fallback
    \/ Increment
    \/ \E a \in Answers : EnrichAnswer(a)
    \/ EnrichResponse
    \/ \E ok \in BOOLEAN, c \in ScriptCounts : ScriptPreview(ok, c)
    \/ \E hasKey \in BOOLEAN : SimpleAssess(hasKey)
    \/ \E a \in ScriptAnswers : SimpleAnswer(a)
    \/ \E advised, wellFormed, go \in BOOLEAN :
          WorkflowAnalyze(advised, wellFormed, go)
    \/ \E a \in ScriptAnswers : WorkflowContinue(a)
    \/ \E a \in ScriptAnswers : WorkflowAnswer(a)
    \/ QuickDecide
    \/ \E ok \in BOOLEAN : ScriptEnrichResponse(ok)

ScriptsSpec == ScriptsInit /\ [][ScriptsNext]_vars

----------------------------------------------------------------------------
(* apply_filter_change on its own: every bounded filter set and change.    *)

Leaves == 0..MaxTok
RangeDicts == {d \in [DictKeys -> Leaves] : d["include"] = 0 /\ d["exclude"] = 0}
Lists == SeqsUpTo(1..MaxTok, MaxLen)
Values ==
    {DictV(d) : d \in RangeDicts} \cup {ListV(l) : l \in Lists}
        \cup {LeafV(v) : v \in Leaves}

ApplyNames == {"company_size", "industries"}
FilterSets == UNION {[D -> Values] : D \in SUBSET ApplyNames}
Actions == {"set", "add", "remove", "replace"}
Changes == {Edit("company_size", a, v) : a \in Actions, v \in Values}

ApplyInit ==
    /\ MainInit
    /\ ScriptIdle
    /\ aF \in FilterSets
    /\ aChange \in Changes
    /\ aOnce = Raised(EmptyFilters)
    /\ aTwice = Raised(EmptyFilters)
    /\ aPhase = "input"

\* one call: apply_filter_change(aF, aChange)
ApplyOnce ==
    /\ aPhase = "input"
    /\ aOnce' = apply_filter_change(aF, aChange)
    /\ aPhase' = "once"
    /\ UNCHANGED <<aF, aChange, aTwice>>
    /\ UNCHANGED <<mainVars, scriptVars>>

\* the same change applied to what the first call returned
ApplyTwice ==
    /\ aPhase = "once"
    /\ aTwice' = apply_filter_change(aOnce.new, aChange)
    /\ aPhase' = "twice"
    /\ UNCHANGED <<aF, aChange, aOnce>>
    /\ UNCHANGED <<mainVars, scriptVars>>

ApplyNext ==
    \/ ApplyOnce
    \/ ApplyTwice

ApplySpec == ApplyInit /\ [][ApplyNext]_vars

----------------------------------------------------------------------------
(* Properties of the run of main(), checked under Spec.                    *)

InLoop == {"while", "preview", "advise", "pivot_prompt", "apply_prompt",
           "manual_prompt", "except", "increment"}
Ended == {"final", "enrich", "done"}

StageRank(p) ==
    CASE p = "while" -> 9
      [] p = "preview" -> 8
      [] p = "advise" -> 7
      [] p = "pivot_prompt" -> 6
      [] p = "apply_prompt" -> 5
      [] p = "manual_prompt" -> 4
      [] p = "except" -> 3
      [] OTHER -> 2

\* a variant of the run: the steps left at most, counted by iterations
Rank ==
    IF pc \in Terminal THEN 0
    ELSE IF pc = "enrich" THEN 1
    ELSE IF pc = "final" THEN 2
    ELSE 10 * (MAX_ITERATIONS + 1 - iteration) + StageRank(pc)

AllCounts(c) == \A i \in 1..Len(previous_counts) : previous_counts[i] = c

\* C1: whatever the collaborators return and the user answers, the loop of
\* main() terminates (every step lowers a variant that is never negative,
\* and only an ended run has no step left) and preview_search is called at
\* most once per iteration and at most MAX_ITERATIONS times in all.
C1_Terminates ==
    /\ [][Rank' < Rank]_vars
    /\ [](/\ Rank >= 0
          /\ evals <= MAX_ITERATIONS
          /\ evals <= iteration
          /\ (pc \notin Terminal => ENABLED Next))

C1_Witness ==
    pc = "final" /\ reason = "exhausted" /\ evals = MAX_ITERATIONS

\* C2: a failing preview_search does not abort the run: the loop goes on
\* by the fallback path with the filters and the history it had.
C2_EvaluationFailureDegrades ==
    [][(pc = "preview" /\ Len(previous_counts') = Len(previous_counts))
          => /\ pc' = "except"
             /\ current_filters' = current_filters
             /\ previous_counts' = previous_counts]_vars

\* C3: when the advisor call fails, the run is not aborted: control goes to
\* the manual rule, which asks nothing, leaves current_filters and the
\* history alone, and either ends the loop or passes to the next iteration.
C3_AdvisorFailureFallsBack ==
    [][err' \in AdvisorFailures
          => /\ pc = "advise" => pc' = "except"
             /\ pc = "except" => pc' \in {"final", "increment"}
             /\ pc' \notin {"crashed", "cancelled", "pivot_prompt",
                            "apply_prompt", "manual_prompt"}
             /\ current_filters' = current_filters
             /\ previous_counts' = previous_counts
             /\ asked' = asked]_vars

C3_Witness ==
    /\ pc = "increment"
    /\ err \in AdvisorFailures
    /\ current_filters # InitialFilters

\* the counts on and next to the two ends of the band
RuleCounts == {0, LowerBound - 1, LowerBound, LowerBound + 1,
               UpperBound - 1, UpperBound, UpperBound + 1}

\* C4: the manual rule depends on the count alone: from 500 to 2000, both
\* included, it proposes proceed and the loop is left; above 2000 it
\* suggests narrowing, below 500 broadening, and the loop is not left by it.
C4_ManualRule ==
    /\ [](\A c \in RuleCounts :
             ManualRule(c) = IF c > 2000 THEN "narrow"
                             ELSE IF c < 500 THEN "broaden"
                             ELSE "proceed")
    /\ [][pc = "except"
            => IF 500 <= count /\ count <= 2000
               THEN /\ pc' = "final"
                    /\ reason' = "in_band"
                    /\ iteration' = iteration
               ELSE /\ pc' = "increment"
                    /\ reason' = "running"]_vars

C4_Witness ==
    pc = "final" /\ reason = "in_band" /\ count = UpperBound

\* C5: when the advisor answers proceed in iteration i the loop is left in
\* iteration i, with no prompt shown and current_filters as they were; a
\* run whose advisor answers proceed at once ends in iteration 1 with one
\* evaluation and a history of length 1.
C5_ProceedStops ==
    /\ [][(pc = "advise" /\ suggestions'.recommendation = "proceed")
            => /\ pc' = "final"
               /\ reason' = "proceed"
               /\ iteration' = iteration
               /\ current_filters' = current_filters
               /\ asked' = {}]_vars
    /\ []((pc \in Ended /\ reason = "proceed")
            => /\ asked = {}
               /\ evals = iteration
               /\ Len(previous_counts) = iteration
               /\ (iteration = 1 => current_filters = InitialFilters))

C5_Witness ==
    /\ pc = "final"
    /\ reason = "proceed"
    /\ iteration = 1
    /\ Len(previous_counts) = 1

\* C6: when the advisor fails in every iteration and every evaluation
\* succeeds and returns 50, the manual rule suggests broadening every time and the run
\* ends by exhaustion, with MAX_ITERATIONS evaluations, MAX_ITERATIONS
\* entries of 50 in the history and the initial filters.
C6_AlwaysFailingAdvisorExhausts ==
    (advisorTrend = "all_failed" /\ AllCounts(50) /\ reason # "preview_error")
        => /\ pc = "except" => ManualRule(count) = "broaden"
           /\ pc \notin {"cancelled", "crashed"}
           /\ current_filters = InitialFilters
           /\ pc \in Ended
                => /\ reason = "exhausted"
                   /\ evals = MAX_ITERATIONS
                   /\ Len(previous_counts) = MAX_ITERATIONS

C6_Witness ==
    /\ pc = "final"
    /\ advisorTrend = "all_failed"
    /\ AllCounts(50)
    /\ Len(previous_counts) = MAX_ITERATIONS

\* C7 as stated: an answer of refine with no changes leaves the loop in
\* that iteration, as proceed does.
C7_EmptyRefineStops ==
    [][(pc = "advise" /\ suggestions'.recommendation = "refine"
           /\ suggestions'.n = 0)
          => pc' = "final"]_vars

\* C7 as amended: an answer of refine with no changes does not leave the
\* loop: no prompt is shown, current_filters stay as they are and control
\* passes to the increment of the iteration counter, so the next iteration,
\* if one is left, runs with the same filters.
C7_EmptyRefineContinues ==
    [][(pc = "advise" /\ suggestions'.recommendation = "refine"
           /\ suggestions'.n = 0)
          => /\ pc' = "increment"
             /\ reason' = "running"
             /\ asked' = {}
             /\ current_filters' = current_filters]_vars

C7_Witness ==
    /\ pc = "preview"
    /\ iteration = 2
    /\ advisorTrend = "all_empty_refine"
    /\ current_filters = InitialFilters

\* C8: when the advisor answers refine with no changes in every iteration,
\* the run ends by exhaustion after iteration MAX_ITERATIONS, with a history
\* of exactly MAX_ITERATIONS entries and the initial filters.
C8_AlwaysEmptyRefineExhausts ==
    advisorTrend = "all_empty_refine"
        => /\ pc \notin {"cancelled", "pivot_prompt", "apply_prompt",
                         "manual_prompt", "except"}
           /\ current_filters = InitialFilters
           /\ pc \in Ended
                => /\ reason = "exhausted"
                   /\ iteration = MAX_ITERATIONS + 1
                   /\ evals = MAX_ITERATIONS
                   /\ Len(previous_counts) = MAX_ITERATIONS

C8_Witness ==
    /\ pc = "final"
    /\ advisorTrend = "all_empty_refine"
    /\ Len(previous_counts) = MAX_ITERATIONS

\* what an edit is meant to do (spec sections 3 and 7): a malformed edit
\* (an action other than set, add, remove; an add whose value is neither a
\* mapping nor a list or does not match the kind of the category it meets)
\* changes nothing, an add creates the category it does not find
Malformed(F, e) ==
    \/ e.action \notin {"set", "add", "remove"}
    \/ /\ e.action = "add"
       /\ \/ e.value.kind = "leaf"
          \/ e.filter \in DOMAIN F /\ F[e.filter].kind # e.value.kind

IntendedEdit(F, e) ==
    IF Malformed(F, e) THEN F
    ELSE IF e.action = "add" /\ e.filter \notin DOMAIN F THEN Put(F, e.filter, e.value)
    ELSE apply_filter_change(F, e).new

RECURSIVE IntendedAll(_, _)
IntendedAll(F, batch) ==
    IF batch = <<>> THEN F
    ELSE IntendedAll(IntendedEdit(F, Head(batch)), Tail(batch))

\* whether the batch, applied to F as meant, adds a list to a category that
\* is not there (the case of C11)
RECURSIVE AddsListToAbsent(_, _)
AddsListToAbsent(F, batch) ==
    IF batch = <<>> THEN FALSE
    ELSE LET e == Head(batch)
         IN  \/ /\ e.action = "add"
                /\ e.value.kind = "list"
                /\ e.filter \notin DOMAIN F
             \/ AddsListToAbsent(IntendedEdit(F, e), Tail(batch))

\* the user answered the "Apply these changes?" prompt with y
Accepted == pc = "apply_prompt" /\ pc' # "manual_prompt"

\* C12: a malformed edit leaves the filter set as it was before that edit
\* and is not fatal: the other edits of the accepted batch are applied and
\* the iteration ends as one without it would (stated for batches that do
\* not meet the case of C11).
C12_MalformedEditIsNoOp ==
    [][(Accepted /\ ~AddsListToAbsent(current_filters, suggestions.changes))
          => /\ pc' = "increment"
             /\ current_filters' =
                   IntendedAll(current_filters, suggestions.changes)]_vars

\* the left fold of apply_filter_change over a batch
RECURSIVE FoldChanges(_, _)
FoldChanges(F, batch) ==
    IF batch = <<>> THEN F
    ELSE FoldChanges(apply_filter_change(F, Head(batch)).new, Tail(batch))

\* C13: when the user confirms a batch every edit of it is applied, in the
\* order given, each to the result of the one before: the filters of the
\* next iteration are the left fold of apply_filter_change over the batch.
C13_BatchAppliedInOrder ==
    [][Accepted
          => /\ pc' = "increment"
             /\ current_filters' =
                   FoldChanges(current_filters, suggestions.changes)]_vars

\* C14: no enrich request is sent while the refinement loop runs; one is
\* sent only after the loop has ended and the "Proceed with enrichment?"
\* prompt was answered yes or y; a run that ended because a pivot was
\* declined is over and has sent none.
C14_EnrichOnlyAfterConfirmedEnd ==
    /\ pc \in InLoop => ~enrichSent
    /\ enrichSent =>
          /\ pc \in {"enrich", "done"}
          /\ proceed \in {"yes", "y"}
          /\ reason \in {"proceed", "declined", "in_band", "exhausted"}
    /\ reason = "pivot_declined" =>
          /\ pc = "cancelled"
          /\ ~enrichSent
          /\ ~ENABLED Next

C14_Witness ==
    /\ pc = "done"
    /\ enrichSent
    /\ proceed = "yes"
    /\ iteration > 1

\* where an iteration goes on to once a refine verdict (or a confirmed
\* pivot) is in hand
EditStep(s) ==
    IF s.changes = <<>> THEN "increment"
    ELSE IF \A i \in 1..Len(s.changes) :
               {"filter", "action", "rationale"} \subseteq s.changes[i].has
         THEN "apply_prompt"
         ELSE "except"

\* C16: on verdict pivot the loop first asks "Continue anyway?"; on any
\* answer but y the run stops at once (nothing applied, nothing evaluated,
\* no step after it); on y the iteration goes on with the edit step as for
\* refine.
C16_PivotAsksFirst ==
    [][/\ (pc = "advise" /\ suggestions'.recommendation = "pivot") =>
             /\ pc' = "pivot_prompt"
             /\ UNCHANGED <<current_filters, previous_counts, evals,
                            iteration, enrichSent>>
       /\ pc = "pivot_prompt" =>
             /\ "pivot" \in asked' /\ "pivot" \notin asked
             /\ pc' \in {"cancelled", EditStep(suggestions)}
             /\ UNCHANGED <<current_filters, previous_counts, evals,
                            iteration, enrichSent>>
       /\ \A a \in Answers : PivotAnswer(a) =>
             IF Lower(a) = "y" THEN pc' = EditStep(suggestions)
             ELSE pc' = "cancelled" /\ reason' = "pivot_declined"
       /\ pc # "cancelled"]_vars

C16_Witness ==
    /\ pc = "cancelled"
    /\ reason = "pivot_declined"
    /\ iteration = 2
    /\ asked = {"pivot"}

\* C17: in the loop the history has one entry per evaluation made, entry i
\* is the count returned in iteration i, the history only grows at its end,
\* and current_filters changes only when an accepted batch is applied, the
\* new filters being the fold of edits of that batch over the old ones.
C17_HistoryAppendOnly ==
    /\ [](/\ pc \in InLoop => Len(previous_counts) = evals
          /\ pc \in {"while", "preview"} =>
                Len(previous_counts) = iteration - 1
          /\ pc \in InLoop \ {"while", "preview"} =>
                Len(previous_counts) = iteration
          /\ pc \in {"advise", "pivot_prompt", "apply_prompt",
                     "manual_prompt", "except"} =>
                previous_counts[iteration] = count)
    /\ [][/\ \A i \in 1..Len(previous_counts) :
                /\ i <= Len(previous_counts')
                /\ previous_counts'[i] = previous_counts[i]
          /\ (pc = "preview" /\ pc' = "advise") =>
                /\ previous_counts' = Append(previous_counts, count')
                /\ Len(previous_counts') = iteration
          /\ previous_counts' # previous_counts =>
                pc = "preview" /\ pc' = "advise"
          /\ current_filters' # current_filters =>
                /\ pc = "apply_prompt"
                /\ pc' \in {"increment", "except"}
                /\ \E n \in 1..Len(suggestions.changes) :
                      current_filters' =
                         FoldChanges(current_filters,
                                     SubSeq(suggestions.changes, 1, n))]_vars

C17_Witness ==
    /\ pc = "advise"
    /\ Len(previous_counts) = 3
    /\ previous_counts[1] # previous_counts[2]
    /\ previous_counts[3] = previous_counts[1]
    /\ "company_size" \in DOMAIN current_filters

\* C18: when the user declines a batch, no edit is applied and the filters
\* stay as they are; the loop then stops unless the user answers y to
\* "Enter your own filter adjustments?", and if it goes on the next
\* iteration evaluates the filters that were evaluated before.
C18_DeclineKeepsFilters ==
    /\ [](("manual" \in asked /\ pc \in {"manual_prompt", "increment", "while"})
             => current_filters = evaluated)
    /\ [][/\ \A a \in Answers : (ApplyAnswer(a) /\ Lower(a) # "y") =>
                /\ pc' = "manual_prompt"
                /\ current_filters' = current_filters
                /\ current_filters = evaluated
          /\ pc = "manual_prompt" =>
                /\ current_filters' = current_filters
                /\ pc' \in {"final", "increment"}
                /\ pc' = "final" => reason' = "declined"
                /\ UNCHANGED <<iteration, previous_counts, evals>>
          /\ \A a \in Answers : ManualAnswer(a) =>
                pc' = IF Lower(a) = "y" THEN "increment" ELSE "final"
          /\ (pc \in {"increment", "while"} /\ "manual" \in asked) =>
                /\ current_filters' = evaluated
                /\ pc' \in {"while", "preview", "final"}
          /\ pc = "preview" => current_filters' = current_filters]_vars

C18_Witness ==
    /\ pc = "while"
    /\ iteration = 3
    /\ asked = {"apply", "manual"}
    /\ "company_size" \in DOMAIN current_filters

\* C19: once the loop has ended, the count reported as final is the count
\* the last evaluation returned, and that evaluation was made for the final
\* current_filters, the filters the enrich request sends (stated for the
\* loop ends at which no edit has raised, the case of C12).
C19_FinalCountIsOfFinalFilters ==
    (pc \in Ended /\ err # "apply") =>
        /\ previous_counts # <<>>
        /\ count = previous_counts[Len(previous_counts)]
        /\ evaluated = current_filters

\* C20: on every way the loop ends, the iteration number of the final
\* summary is the number of evaluations made, which is the length of the
\* history, and is at most MAX_ITERATIONS.
C20_ReportedIterationIsEvaluations ==
    pc \in Ended =>
        /\ iteration = evals
        /\ iteration = Len(previous_counts)
        /\ iteration <= MAX_ITERATIONS

----------------------------------------------------------------------------
(* Properties of apply_filter_change, checked under ApplySpec.             *)

Called == aPhase \in {"once", "twice"}

\* C9: a set edit on x with value v returns a filter set that maps x to v
\* and has, apart from x, the keys of F with the values of F, whether or
\* not F had x.
C9_SetFrame ==
    (Called /\ aChange.action = "set")
        => /\ ~aOnce.raised
           /\ DOMAIN aOnce.new = (DOMAIN aF) \cup {aChange.filter}
           /\ aOnce.new[aChange.filter] = aChange.value
           /\ \A k \in (DOMAIN aF) \ {aChange.filter} : aOnce.new[k] = aF[k]

C9_Witness ==
    /\ aPhase = "once"
    /\ aChange.action = "set"
    /\ DOMAIN aF = ApplyNames
    /\ aF[aChange.filter] # aChange.value

\* C10: a remove edit on x returns a filter set without x and with every
\* other key as in F; when F has no x the result equals F, and the same
\* edit applied to the result gives the result again.
C10_RemoveIdempotent ==
    (Called /\ aChange.action = "remove")
        => /\ ~aOnce.raised
           /\ DOMAIN aOnce.new = (DOMAIN aF) \ {aChange.filter}
           /\ \A k \in DOMAIN aOnce.new : aOnce.new[k] = aF[k]
           /\ (aChange.filter \notin DOMAIN aF => aOnce.new = aF)
           /\ (aPhase = "twice"
                 => ~aTwice.raised /\ aTwice.new = aOnce.new)

C10_Witness ==
    /\ aPhase = "twice"
    /\ aChange.action = "remove"
    /\ DOMAIN aF = ApplyNames

\* C11: an add edit with a mapping or list value (of the kind of the
\* category when the category is there) raises nothing, leaves the other
\* categories alone, creates an absent category with exactly the given
\* value, merges a mapping key by key and appends a list.
C11_AddMerges ==
    LET x == aChange.filter
        v == aChange.value
    IN  (/\ Called
         /\ aChange.action = "add"
         /\ v.kind \in {"dict", "list"}
         /\ (x \in DOMAIN aF => aF[x].kind = v.kind))
           => /\ ~aOnce.raised
              /\ DOMAIN aOnce.new = (DOMAIN aF) \cup {x}
              /\ \A k \in (DOMAIN aF) \ {x} : aOnce.new[k] = aF[k]
              /\ (x \notin DOMAIN aF => aOnce.new[x] = v)
              /\ (x \in DOMAIN aF /\ v.kind = "dict"
                    => aOnce.new[x] =
                         DictV([k \in DictKeys |->
                                  IF v.d[k] # 0 THEN v.d[k] ELSE aF[x].d[k]]))
              /\ (x \in DOMAIN aF /\ v.kind = "list"
                    => aOnce.new[x] = ListV(aF[x].l \o v.l))

----------------------------------------------------------------------------
(* Properties of the entry points, checked under ScriptsSpec.              *)

\* the enrich prompt of the entry point was answered with consent
ScriptConfirmed == sReply \in {"y", "yes"}

\* as stated: in every entry point an enrich request is preceded by a
\* successful preview and by a confirmation prompt answered affirmatively
C15_EnrichNeedsConfirmation ==
    /\ enrichSent => previous_counts # <<>> /\ Affirmative(proceed)
    /\ sEnrichSent => sPreviewed /\ ScriptConfirmed

\* C15: in main(), simple_example.py and run_workflow_example an enrich
\* request is preceded by a successful preview and by a confirmation prompt
\* answered affirmatively (y or yes; y alone in run_workflow_example);
\* quick_example asks nothing: its enrich request is preceded by a
\* successful preview that reported a count within 100..5000.
C15_EnrichNeedsConfirmationOrRange ==
    /\ enrichSent => previous_counts # <<>> /\ Affirmative(proceed)
    /\ sEnrichSent /\ sScript = "simple_example" =>
          sPreviewed /\ ScriptConfirmed
    /\ sEnrichSent /\ sScript = "run_workflow_example" =>
          sPreviewed /\ sReply = "y"
    /\ sEnrichSent /\ sScript = "quick_example" =>
          /\ sPreviewed
          /\ sReply = "none"
          /\ QuickLow <= sCount /\ sCount <= QuickHigh
    /\ (sScript = "quick_example" /\ sPc = "done" /\ ~sEnrichSent) =>
          ~(QuickLow <= sCount /\ sCount <= QuickHigh)

C15_Witness ==
    /\ sScript = "quick_example"
    /\ sPc = "done"
    /\ sEnrichSent
    /\ sCount = QuickHigh

====
